---- MODULE Spec2Model ----
\* pyflink.table.expressions: the expression factory functions, each of which
\* marshals its operands, invokes a static factory method of the Java class
\* Expressions through the gateway and wraps the returned Java object in a
\* local Expression.
\*
\* Values are records, told apart by their field:
\*   [raw |-> i]      a plain Python scalar (the caller's i-th argument)
\*   [none |-> TRUE]  Python's None
\*   [w |-> k]        a local Expression wrapper, the k-th object of the heap
\*   [h |-> n]        a Java expression handle, the n-th the remote factory returned
\*   [arr |-> s]      a Java Object[] holding the sequence s
\*   [str |-> s]      a Python str
\* and the auxiliary Python values and their Java counterparts below.
EXTENDS Integers, Sequences, FiniteSets, Bags, TLC

VARIABLES
    nextHandle,   \* the remote factory: the number of the next handle it returns
    heap,         \* the local Expression objects: heap[k] is what wrapper k holds (_j_expr)
    last,         \* the caller's record of the public call that returned last
    again,        \* whether that call repeated the call before it: the same function
                  \* and arguments, both calls having returned
    doc,          \* the documentation of the module's members: doc[version] is the
                  \* bag of the names that carry the since-version marker of version
    invoked,      \* the remote factory: the number of invocations it has received
    issued        \* the number of remote invocations made by public calls

vars == <<nextHandle, heap, last, again, doc, invoked, issued>>

\* ---- bounds ----
MaxHandle == 3        \* a public call starts only while nextHandle <= MaxHandle
MaxTail == 2          \* the most operands passed through a *args tail
MaxLtzArgs == 4       \* the most arguments passed to to_timestamp_ltz
MaxFailAt == 2        \* the latest remote invocation of a call that can be made to fail

\* ---- values ----
None == [none |-> TRUE]
Raw(i) == [raw |-> i]
IsWrapper(v) == "w" \in DOMAIN v
IsStr(v) == "str" \in DOMAIN v
IsHandle(v) == "h" \in DOMAIN v

DataTypes == {[data_type |-> "INT"]}
JsonOnNull_NULL == [on_null |-> "NULL"]
JsonOnNull_ABSENT == [on_null |-> "ABSENT"]
JsonOnNull == {JsonOnNull_NULL, JsonOnNull_ABSENT}
TimePointUnit == {[unit |-> "DAY"], [unit |-> "HOUR"]}
Callables == {[str |-> "my_udf"], [udf |-> "py_udf"]}
DefaultOffset == [int |-> "1"]

FailureKinds == {"unreachable", "unresolvable", "unmarshallable"}
NoFailure == [at |-> 0, kind |-> "none"]
\* the failures a call that makes up to n remote invocations can meet
Failures(n) == {NoFailure} \cup [at : 1..n, kind : FailureKinds]

NoCall == [fn |-> "none", args |-> << >>, invs |-> << >>, err |-> "none", ret |-> None]

Range(s) == {s[i] : i \in DOMAIN s}

\* ---- collaborators imported from other modules of the package ----

\* pyflink.table.expression._get_java_expression (to_expr = False): an Expression
\* gives the Java expression it holds, anything else is passed as it is
_get_java_expression(c, expr) ==
    IF IsWrapper(expr) THEN c.heap[expr.w] ELSE expr

\* [_get_java_expression(a) for a in args]
JavaExpressions(c, args) ==
    [i \in DOMAIN args |-> _get_java_expression(c, args[i])]

\* pyflink.util.java_utils.to_jarray(gateway.jvm.Object, list)
to_jarray(list) == [arr |-> list]

\* pyflink.table.types._to_java_data_type
_to_java_data_type(data_type) == [j_data_type |-> data_type.data_type]

\* JsonOnNull._to_j_json_on_null
_to_j_json_on_null(on_null) == [j_on_null |-> on_null.on_null]

\* TimePointUnit._to_j_time_point_unit
_to_j_time_point_unit(unit) == [j_unit |-> unit.unit]

\* UserDefinedFunctionWrapper._java_user_defined_function
_java_user_defined_function(f) == [j_function |-> f.udf]

\* ---- a call in progress ----
\* c.next, c.heap: the remote counter and the heap as the call has left them so far;
\* c.invs: the remote factory invocations the call has made; c.err: the exception
\* being raised ("none" while there is none); c.ret: the value of the expression
\* evaluated last; c.jret: what the last remote invocation returned; c.fail: which
\* remote invocation of this call fails, and how.
Enter(f) ==
    [next |-> nextHandle, heap |-> heap, invs |-> << >>, err |-> "none",
     ret |-> None, jret |-> None, fail |-> f]

Raised(c) == c.err # "none"

\* a Python exception raised locally; nothing after it runs
Raise(c, exception) ==
    IF Raised(c) THEN c ELSE [c EXCEPT !.err = exception, !.ret = None]

\* The remote factory: one invocation of a static method of the Java class
\* Expressions, through the gateway (entry "Expressions") or through
\* java.lang.reflect.Method.invoke (entry "reflection"). It fails with c.fail.kind
\* when it is invocation number c.fail.at of the call, and returns a new handle
\* otherwise. An invocation that fails raises in the caller.
Invoke(c, entry, op, operands) ==
    IF Raised(c) THEN c
    ELSE IF c.fail.at = Len(c.invs) + 1
    THEN [c EXCEPT !.invs = Append(@, [entry |-> entry, op |-> op, operands |-> operands,
                                        ret |-> None, outcome |-> c.fail.kind]),
                   !.err = c.fail.kind, !.ret = None, !.jret = None]
    ELSE [c EXCEPT !.invs = Append(@, [entry |-> entry, op |-> op, operands |-> operands,
                                        ret |-> [h |-> c.next], outcome |-> "ok"]),
                   !.next = @ + 1, !.jret = [h |-> c.next]]

\* pyflink.table.expression.Expression(j_expr): a new wrapper holding j_expr
Expression(c, j_expr) ==
    IF Raised(c) THEN c
    ELSE [c EXCEPT !.heap = Append(@, j_expr), !.ret = [w |-> Len(c.heap) + 1]]

Wrap(c) == Expression(c, c.jret)

\* ---- the arity-tagged builders ----

\* a faulty _leaf_op: the result of a leaf operation is kept, and given again
\* when the call before was the same
_leaf_op_memoized(c, op_name) ==
    IF last.err = "none" /\ Len(last.invs) = 1 /\ last.invs[1].op = op_name
    THEN [c EXCEPT !.ret = last.ret]
    ELSE Wrap(Invoke(c, "Expressions", op_name, << >>))

\* expressions.py:40-42
_leaf_op(c, op_name) ==
    Wrap(Invoke(c, "Expressions", op_name, << >>))

\* a faulty _unary_op: a failed invocation is made a second time
_unary_op_retried(c, op_name, arg) ==
    LET r == Invoke(c, "Expressions", op_name, <<_get_java_expression(c, arg)>>)
    IN  IF Raised(r) /\ ~Raised(c)
        THEN Wrap(Invoke([r EXCEPT !.err = "none"], "Expressions", op_name,
                         <<_get_java_expression(c, arg)>>))
        ELSE Wrap(r)

\* a faulty _unary_op: the wrapper is built around the operand, not around what
\* the remote factory returned
_unary_op_wraps_operand(c, op_name, arg) ==
    LET r == Invoke(c, "Expressions", op_name, <<_get_java_expression(c, arg)>>)
    IN  Expression(r, _get_java_expression(c, arg))

\* expressions.py:45-47
_unary_op(c, op_name, arg) ==
    Wrap(Invoke(c, "Expressions", op_name, <<_get_java_expression(c, arg)>>))

\* expressions.py:50-54
_binary_op(c, op_name, first, second) ==
    Wrap(Invoke(c, "Expressions", op_name,
                <<_get_java_expression(c, first), _get_java_expression(c, second)>>))

\* expressions.py:57-62
_ternary_op(c, op_name, first, second, third) ==
    Wrap(Invoke(c, "Expressions", op_name,
                <<_get_java_expression(c, first), _get_java_expression(c, second),
                  _get_java_expression(c, third)>>))

\* expressions.py:65-71
_quaternion_op(c, op_name, first, second, third, forth) ==
    Wrap(Invoke(c, "Expressions", op_name,
                <<_get_java_expression(c, first), _get_java_expression(c, second),
                  _get_java_expression(c, third), _get_java_expression(c, forth)>>))

\* expressions.py:74-77
_varargs_op(c, op_name, args) ==
    Wrap(Invoke(c, "Expressions", op_name, JavaExpressions(c, args)))

\* ---- the caller ----

\* expressions.py:190: the wrapper UNBOUNDED_ROW is the first object of the heap
UNBOUNDED_ROW == [w |-> 1]

\* the wrappers the caller passes as operands: a module constant and the
\* wrapper the last call returned
Held == {UNBOUNDED_ROW} \cup {r \in {last.ret} : IsWrapper(r)}

Base(n) == [i \in 1..n |-> Raw(i)]

\* the argument lists of length n the caller passes: its own scalars, any one of
\* them replaced by a wrapper it holds, or (at the positions noneAt) by None
Vectors(n, noneAt) ==
    {Base(n)}
    \cup {[Base(n) EXCEPT ![i] = w] : i \in 1..n, w \in Held}
    \cup {[Base(n) EXCEPT ![i] = None] : i \in noneAt \cap (1..n)}

\* argument lists with lo fixed positions and a *args tail
VarVectors(lo) == UNION {Vectors(n, {}) : n \in lo..(lo + MaxTail)}

\* Python's binding of an optional parameter
Param(args, i, default) == IF i <= Len(args) THEN args[i] ELSE default

\* Python's binding of *args after n positional parameters
Rest(args, n) == SubSeq(args, n + 1, Len(args))

\* The caller goes on calling while no call has raised: the failures are
\* unrecoverable errors of the environment, and end the caller's program.
CanCall ==
    /\ nextHandle <= MaxHandle
    /\ last.err = "none"

\* the call returns (or raises): its effects become the state
Return(fn, args, c) ==
    /\ nextHandle' = c.next
    /\ heap' = c.heap
    /\ last' = [fn |-> fn, args |-> args, invs |-> c.invs, err |-> c.err,
                ret |-> IF Raised(c) THEN None ELSE c.ret]
    /\ again' = (/\ last.fn = fn /\ last.args = args
                 /\ last.err = "none" /\ ~Raised(c))
    /\ invoked' = invoked + Len(c.invs)
    /\ issued' = issued + Len(c.invs)
    /\ UNCHANGED doc

\* ---- the public functions, in source order (c is the call in progress) ----

\* expressions.py:88-102
col(c, name) ==
    _unary_op(c, "col", name)

\* a faulty lit: the type descriptor is passed before the value
lit_type_first(c, v, data_type) ==
    IF data_type = None
    THEN _unary_op(c, "lit", v)
    ELSE _binary_op(c, "lit", _to_java_data_type(data_type), v)

\* expressions.py:105-121
lit(c, v, data_type) ==
    IF data_type = None
    THEN _unary_op(c, "lit", v)
    ELSE _binary_op(c, "lit", v, _to_java_data_type(data_type))

\* expressions.py:124-136
range_(c, start, end) ==
    _binary_op(c, "range", start, end)

\* a faulty and_: the remaining predicates are dropped
and_first_two_only(c, predicate0, predicate1, predicates) ==
    _ternary_op(c, "and", predicate0, predicate1, to_jarray(<< >>))

\* expressions.py:139-148
and_(c, predicate0, predicate1, predicates) ==
    _ternary_op(c, "and", predicate0, predicate1, to_jarray(JavaExpressions(c, predicates)))

\* expressions.py:151-160
or_(c, predicate0, predicate1, predicates) ==
    _ternary_op(c, "or", predicate0, predicate1, to_jarray(JavaExpressions(c, predicates)))

\* a faulty not_: the wrapper it is given is made to hold the result
not_in_place(c, expression) ==
    LET r == Invoke(c, "Expressions", "not", <<_get_java_expression(c, expression)>>)
    IN  IF Raised(r) \/ ~IsWrapper(expression) THEN Wrap(r)
        ELSE [r EXCEPT !.heap[expression.w] = r.jret, !.ret = expression]

\* expressions.py:163-180
not_(c, expression) ==
    _unary_op(c, "not", expression)

\* expressions.py:222-227
current_database(c) ==
    _leaf_op(c, "currentDatabase")

\* expressions.py:230-235
current_date(c) ==
    _leaf_op(c, "currentDate")

\* expressions.py:238-243
current_time(c) ==
    _leaf_op(c, "currentTime")

\* expressions.py:246-252
current_timestamp(c) ==
    _leaf_op(c, "currentTimestamp")

\* expressions.py:255-272
current_watermark(c, rowtimeAttribute) ==
    _unary_op(c, "currentWatermark", rowtimeAttribute)

\* expressions.py:275-280
local_time(c) ==
    _leaf_op(c, "localTime")

\* expressions.py:283-289
local_timestamp(c) ==
    _leaf_op(c, "localTimestamp")

\* expressions.py:292-305
to_date(c, date_str, format) ==
    IF format = None
    THEN _unary_op(c, "toDate", date_str)
    ELSE _binary_op(c, "toDate", date_str, format)

\* expressions.py:308-322
to_timestamp(c, timestamp_str, format) ==
    IF format = None
    THEN _unary_op(c, "toTimestamp", timestamp_str)
    ELSE _binary_op(c, "toTimestamp", timestamp_str, format)

\* a faulty to_timestamp_ltz: the arguments are passed on as they are, not wrapped by lit
to_timestamp_ltz_unwrapped(c, args) ==
    IF Len(args) = 1 THEN _unary_op(c, "toTimestampLtz", args[1])
    ELSE IF Len(args) = 2 THEN _binary_op(c, "toTimestampLtz", args[1], args[2])
    ELSE IF Len(args) = 0 THEN Raise(c, "IndexError")
    ELSE _ternary_op(c, "toTimestampLtz", args[1], args[2], args[3])

\* a faulty to_timestamp_ltz: the two-argument form passes its operands in the wrong order
to_timestamp_ltz_swapped(c, args) ==
    IF Len(args) = 2
    THEN LET c1 == lit(c, args[1], None)
             c2 == lit(c1, args[2], None)
         IN  _binary_op(c2, "toTimestampLtz", c2.ret, c1.ret)
    ELSE to_timestamp_ltz_unwrapped(c, args)

\* a faulty to_timestamp_ltz: called with no argument it invokes the remote operation
\* with no operand
to_timestamp_ltz_of_nothing(c, args) ==
    IF Len(args) = 1
    THEN LET c1 == lit(c, args[1], None)
         IN  _unary_op(c1, "toTimestampLtz", c1.ret)
    ELSE IF Len(args) = 2
    THEN LET c1 == lit(c, args[1], None)
             c2 == lit(c1, args[2], None)
         IN  _binary_op(c2, "toTimestampLtz", c1.ret, c2.ret)
    ELSE IF Len(args) = 0
    THEN _leaf_op(c, "toTimestampLtz")
    ELSE LET c1 == lit(c, args[1], None)
             c2 == lit(c1, args[2], None)
             c3 == lit(c2, args[3], None)
         IN  _ternary_op(c3, "toTimestampLtz", c1.ret, c2.ret, c3.ret)

\* expressions.py:325-366
to_timestamp_ltz(c, args) ==
    IF Len(args) = 1
    THEN LET c1 == lit(c, args[1], None)
         IN  _unary_op(c1, "toTimestampLtz", c1.ret)
    ELSE IF Len(args) = 2
    THEN LET c1 == lit(c, args[1], None)
             c2 == lit(c1, args[2], None)
         IN  _binary_op(c2, "toTimestampLtz", c1.ret, c2.ret)
    ELSE IF Len(args) = 0
    THEN Raise(c, "IndexError")      \* args[0] of the empty tuple
    ELSE LET c1 == lit(c, args[1], None)
             c2 == lit(c1, args[2], None)
             c3 == lit(c2, args[3], None)
         IN  _ternary_op(c3, "toTimestampLtz", c1.ret, c2.ret, c3.ret)

\* expressions.py:369-393
temporal_overlaps(c, left_time_point, left_temporal, right_time_point, right_temporal) ==
    _quaternion_op(c, "temporalOverlaps",
        left_time_point, left_temporal, right_time_point, right_temporal)

\* expressions.py:396-410
date_format(c, timestamp, format) ==
    _binary_op(c, "dateFormat", timestamp, format)

\* expressions.py:413-429
timestamp_diff(c, time_point_unit, time_point1, time_point2) ==
    _ternary_op(c, "timestampDiff", _to_j_time_point_unit(time_point_unit),
        time_point1, time_point2)

\* expressions.py:432-453
convert_tz(c, date_str, tz_from, tz_to) ==
    _ternary_op(c, "convertTz", date_str, tz_from, tz_to)

\* expressions.py:456-465
from_unixtime(c, unixtime, format) ==
    IF format = None
    THEN _unary_op(c, "fromUnixtime", unixtime)
    ELSE _binary_op(c, "fromUnixtime", unixtime, format)

\* expressions.py:468-485
unix_timestamp(c, date_str, format) ==
    IF date_str = None
    THEN _leaf_op(c, "unixTimestamp")
    ELSE IF format = None
    THEN _unary_op(c, "unixTimestamp", date_str)
    ELSE _binary_op(c, "unixTimestamp", date_str, format)

\* expressions.py:488-500
array(c, head, tail) ==
    _binary_op(c, "array", head, to_jarray(JavaExpressions(c, tail)))

\* expressions.py:503-515
row(c, head, tail) ==
    _binary_op(c, "row", head, to_jarray(JavaExpressions(c, tail)))

\* expressions.py:518-539
map_(c, key, value, tail) ==
    _ternary_op(c, "map", key, value, to_jarray(JavaExpressions(c, tail)))

\* expressions.py:542-560
map_from_arrays(c, key, value) ==
    _binary_op(c, "mapFromArrays", key, value)

\* expressions.py:563-593
object_of(c, class_name, args) ==
    _varargs_op(c, "objectOf", <<class_name>> \o args)

\* expressions.py:596-613
row_interval(c, rows) ==
    _unary_op(c, "rowInterval", rows)

\* expressions.py:616-621
pi(c) ==
    _leaf_op(c, "pi")

\* expressions.py:624-629
e(c) ==
    _leaf_op(c, "e")

\* expressions.py:632-642
rand(c, seed) ==
    IF seed = None
    THEN _leaf_op(c, "rand")
    ELSE _unary_op(c, "rand", seed)

\* expressions.py:645-656
rand_integer(c, bound, seed) ==
    IF seed = None
    THEN _unary_op(c, "randInteger", bound)
    ELSE _binary_op(c, "randInteger", seed, bound)

\* expressions.py:659-664
atan2(c, y, x) ==
    _binary_op(c, "atan2", y, x)

\* expressions.py:667-672
negative(c, v) ==
    _unary_op(c, "negative", v)

\* a faulty concat: the further operands are passed one by one, not as a collection
concat_flattened(c, first, others) ==
    _varargs_op(c, "concat", <<first>> \o others)

\* expressions.py:675-686
concat(c, first, others) ==
    _binary_op(c, "concat", first, to_jarray(JavaExpressions(c, others)))

\* a faulty concat_ws: the Java name misspelt
concat_ws_misspelt(c, separator, first, others) ==
    _ternary_op(c, "concatWS", separator, first, to_jarray(JavaExpressions(c, others)))

\* expressions.py:689-707
concat_ws(c, separator, first, others) ==
    _ternary_op(c, "concatWs", separator, first, to_jarray(JavaExpressions(c, others)))

\* expressions.py:710-718
uuid(c) ==
    _leaf_op(c, "uuid")

\* expressions.py:721-726
null_of(c, data_type) ==
    _unary_op(c, "nullOf", _to_java_data_type(data_type))

\* a faulty log: the operands are passed in the order of the parameters
log_value_first(c, v, base) ==
    IF base = None
    THEN _unary_op(c, "log", v)
    ELSE _binary_op(c, "log", v, base)

\* expressions.py:729-738
log(c, v, base) ==
    IF base = None
    THEN _unary_op(c, "log", v)
    ELSE _binary_op(c, "log", base, v)

\* expressions.py:741-753
source_watermark(c) ==
    _leaf_op(c, "sourceWatermark")

\* expressions.py:756-768
if_then_else(c, condition, if_true, if_false) ==
    _ternary_op(c, "ifThenElse", condition, if_true, if_false)

\* expressions.py:771-792
coalesce(c, args) ==
    _unary_op(c, "coalesce", to_jarray(JavaExpressions(c, args)))

\* expressions.py:795-809
with_all_columns(c) ==
    _leaf_op(c, "withAllColumns")

\* expressions.py:812-828
with_columns(c, head, tails) ==
    _binary_op(c, "withColumns", head, to_jarray(JavaExpressions(c, tails)))

\* expressions.py:831-848
without_columns(c, head, tails) ==
    _binary_op(c, "withoutColumns", head, to_jarray(JavaExpressions(c, tails)))

\* expressions.py:851-882
json(c, value) ==
    _unary_op(c, "json", value)

\* expressions.py:885-903
json_string(c, value) ==
    _unary_op(c, "jsonString", value)

\* a faulty json_object: the policy is passed after the values, where the signature has it
\* for a keyword argument
json_object_policy_last(c, on_null, args) ==
    _varargs_op(c, "jsonObject", args \o <<_to_j_json_on_null(on_null)>>)

\* expressions.py:906-941
json_object(c, on_null, args) ==
    _varargs_op(c, "jsonObject", <<_to_j_json_on_null(on_null)>> \o args)

\* expressions.py:944-965
json_object_agg(c, on_null, key_expr, value_expr) ==
    _ternary_op(c, "jsonObjectAgg", _to_j_json_on_null(on_null), key_expr, value_expr)

\* expressions.py:968-1000
json_array(c, on_null, args) ==
    _varargs_op(c, "jsonArray", <<_to_j_json_on_null(on_null)>> \o args)

\* expressions.py:1003-1020
json_array_agg(c, on_null, item_expr) ==
    _binary_op(c, "jsonArrayAgg", _to_j_json_on_null(on_null), item_expr)

\* a faulty lag: a default that is an expression is taken as no default
lag_expression_default(c, expr, offset, default) ==
    IF default = None \/ IsWrapper(default)
    THEN _binary_op(c, "lag", expr, offset)
    ELSE _ternary_op(c, "lag", expr, offset, default)

\* expressions.py:1023-1032
lag(c, expr, offset, default) ==
    IF default = None
    THEN _binary_op(c, "lag", expr, offset)
    ELSE _ternary_op(c, "lag", expr, offset, default)

\* expressions.py:1035-1044
lead(c, expr, offset, default) ==
    IF default = None
    THEN _binary_op(c, "lead", expr, offset)
    ELSE _ternary_op(c, "lead", expr, offset, default)

\* a faulty call: a function object is passed to the name-based entry point
call_by_name_only(c, f, args) ==
    Wrap(Invoke(c, "Expressions", "call",
                <<IF IsStr(f) THEN f ELSE _java_user_defined_function(f),
                  to_jarray(JavaExpressions(c, args))>>))

\* expressions.py:1047-1092
call(c, f, args) ==
    IF IsStr(f)
    THEN Wrap(Invoke(c, "Expressions", "call", <<f, to_jarray(JavaExpressions(c, args))>>))
    ELSE Wrap(Invoke(c, "reflection", "apiCall",
             <<_java_user_defined_function(f), to_jarray(JavaExpressions(c, args))>>))

\* expressions.py:1095-1108
call_sql(c, sql_expression) ==
    _unary_op(c, "callSql", sql_expression)

\* ---- one action per public function: the caller's call, its arguments bound as Python binds them ----

Call_col ==
    /\ CanCall
    /\ \E args \in Vectors(1, {}), f \in Failures(1) :
          Return("col", args, col(Enter(f), args[1]))

Call_lit ==
    /\ CanCall
    /\ \E args \in Vectors(1, {1}) \cup {a \o <<t>> : a \in Vectors(1, {1}), t \in DataTypes \cup {None}}, f \in Failures(1) :
          Return("lit", args, lit(Enter(f), args[1], Param(args, 2, None)))

Call_range_ ==
    /\ CanCall
    /\ \E args \in Vectors(2, {}), f \in Failures(1) :
          Return("range_", args, range_(Enter(f), args[1], args[2]))

Call_and_ ==
    /\ CanCall
    /\ \E args \in VarVectors(2), f \in Failures(1) :
          Return("and_", args, and_(Enter(f), args[1], args[2], Rest(args, 2)))

Call_or_ ==
    /\ CanCall
    /\ \E args \in VarVectors(2), f \in Failures(1) :
          Return("or_", args, or_(Enter(f), args[1], args[2], Rest(args, 2)))

Call_not_ ==
    /\ CanCall
    /\ \E args \in Vectors(1, {}), f \in Failures(1) :
          Return("not_", args, not_(Enter(f), args[1]))

Call_current_database ==
    /\ CanCall
    /\ \E args \in {<< >>}, f \in Failures(1) :
          Return("current_database", args, current_database(Enter(f)))

Call_current_date ==
    /\ CanCall
    /\ \E args \in {<< >>}, f \in Failures(1) :
          Return("current_date", args, current_date(Enter(f)))

Call_current_time ==
    /\ CanCall
    /\ \E args \in {<< >>}, f \in Failures(1) :
          Return("current_time", args, current_time(Enter(f)))

Call_current_timestamp ==
    /\ CanCall
    /\ \E args \in {<< >>}, f \in Failures(1) :
          Return("current_timestamp", args, current_timestamp(Enter(f)))

Call_current_watermark ==
    /\ CanCall
    /\ \E args \in Vectors(1, {}), f \in Failures(1) :
          Return("current_watermark", args, current_watermark(Enter(f), args[1]))

Call_local_time ==
    /\ CanCall
    /\ \E args \in {<< >>}, f \in Failures(1) :
          Return("local_time", args, local_time(Enter(f)))

Call_local_timestamp ==
    /\ CanCall
    /\ \E args \in {<< >>}, f \in Failures(1) :
          Return("local_timestamp", args, local_timestamp(Enter(f)))

Call_to_date ==
    /\ CanCall
    /\ \E args \in Vectors(1, {}) \cup Vectors(2, {2}), f \in Failures(1) :
          Return("to_date", args, to_date(Enter(f), args[1], Param(args, 2, None)))

Call_to_timestamp ==
    /\ CanCall
    /\ \E args \in Vectors(1, {}) \cup Vectors(2, {2}), f \in Failures(1) :
          Return("to_timestamp", args, to_timestamp(Enter(f), args[1], Param(args, 2, None)))

Call_to_timestamp_ltz ==
    /\ CanCall
    /\ \E args \in UNION {Vectors(n, 1..n) : n \in 0..MaxLtzArgs}, f \in Failures(MaxFailAt) :
          Return("to_timestamp_ltz", args, to_timestamp_ltz(Enter(f), args))

Call_temporal_overlaps ==
    /\ CanCall
    /\ \E args \in Vectors(4, {}), f \in Failures(1) :
          Return("temporal_overlaps", args, temporal_overlaps(Enter(f), args[1], args[2], args[3], args[4]))

Call_date_format ==
    /\ CanCall
    /\ \E args \in Vectors(2, {}), f \in Failures(1) :
          Return("date_format", args, date_format(Enter(f), args[1], args[2]))

Call_timestamp_diff ==
    /\ CanCall
    /\ \E args \in {<<u>> \o a : u \in TimePointUnit, a \in Vectors(2, {})}, f \in Failures(1) :
          Return("timestamp_diff", args, timestamp_diff(Enter(f), args[1], args[2], args[3]))

Call_convert_tz ==
    /\ CanCall
    /\ \E args \in Vectors(3, {}), f \in Failures(1) :
          Return("convert_tz", args, convert_tz(Enter(f), args[1], args[2], args[3]))

Call_from_unixtime ==
    /\ CanCall
    /\ \E args \in Vectors(1, {}) \cup Vectors(2, {2}), f \in Failures(1) :
          Return("from_unixtime", args, from_unixtime(Enter(f), args[1], Param(args, 2, None)))

Call_unix_timestamp ==
    /\ CanCall
    /\ \E args \in Vectors(0, {}) \cup Vectors(1, {1}) \cup Vectors(2, {1, 2}), f \in Failures(1) :
          Return("unix_timestamp", args, unix_timestamp(Enter(f), Param(args, 1, None), Param(args, 2, None)))

Call_array ==
    /\ CanCall
    /\ \E args \in VarVectors(1), f \in Failures(1) :
          Return("array", args, array(Enter(f), args[1], Rest(args, 1)))

Call_row ==
    /\ CanCall
    /\ \E args \in VarVectors(1), f \in Failures(1) :
          Return("row", args, row(Enter(f), args[1], Rest(args, 1)))

Call_map_ ==
    /\ CanCall
    /\ \E args \in VarVectors(2), f \in Failures(1) :
          Return("map_", args, map_(Enter(f), args[1], args[2], Rest(args, 2)))

Call_map_from_arrays ==
    /\ CanCall
    /\ \E args \in Vectors(2, {}), f \in Failures(1) :
          Return("map_from_arrays", args, map_from_arrays(Enter(f), args[1], args[2]))

Call_object_of ==
    /\ CanCall
    /\ \E args \in VarVectors(1), f \in Failures(1) :
          Return("object_of", args, object_of(Enter(f), args[1], Rest(args, 1)))

Call_row_interval ==
    /\ CanCall
    /\ \E args \in Vectors(1, {}), f \in Failures(1) :
          Return("row_interval", args, row_interval(Enter(f), args[1]))

Call_pi ==
    /\ CanCall
    /\ \E args \in {<< >>}, f \in Failures(1) :
          Return("pi", args, pi(Enter(f)))

Call_e ==
    /\ CanCall
    /\ \E args \in {<< >>}, f \in Failures(1) :
          Return("e", args, e(Enter(f)))

Call_rand ==
    /\ CanCall
    /\ \E args \in Vectors(0, {}) \cup Vectors(1, {1}), f \in Failures(1) :
          Return("rand", args, rand(Enter(f), Param(args, 1, None)))

Call_rand_integer ==
    /\ CanCall
    /\ \E args \in Vectors(1, {}) \cup Vectors(2, {2}), f \in Failures(1) :
          Return("rand_integer", args, rand_integer(Enter(f), args[1], Param(args, 2, None)))

Call_atan2 ==
    /\ CanCall
    /\ \E args \in Vectors(2, {}), f \in Failures(1) :
          Return("atan2", args, atan2(Enter(f), args[1], args[2]))

Call_negative ==
    /\ CanCall
    /\ \E args \in Vectors(1, {}), f \in Failures(1) :
          Return("negative", args, negative(Enter(f), args[1]))

Call_concat ==
    /\ CanCall
    /\ \E args \in VarVectors(1), f \in Failures(1) :
          Return("concat", args, concat(Enter(f), args[1], Rest(args, 1)))

Call_concat_ws ==
    /\ CanCall
    /\ \E args \in VarVectors(2), f \in Failures(1) :
          Return("concat_ws", args, concat_ws(Enter(f), args[1], args[2], Rest(args, 2)))

Call_uuid ==
    /\ CanCall
    /\ \E args \in {<< >>}, f \in Failures(1) :
          Return("uuid", args, uuid(Enter(f)))

Call_null_of ==
    /\ CanCall
    /\ \E args \in {<<t>> : t \in DataTypes}, f \in Failures(1) :
          Return("null_of", args, null_of(Enter(f), args[1]))

Call_log ==
    /\ CanCall
    /\ \E args \in Vectors(1, {}) \cup Vectors(2, {2}), f \in Failures(1) :
          Return("log", args, log(Enter(f), args[1], Param(args, 2, None)))

Call_source_watermark ==
    /\ CanCall
    /\ \E args \in {<< >>}, f \in Failures(1) :
          Return("source_watermark", args, source_watermark(Enter(f)))

Call_if_then_else ==
    /\ CanCall
    /\ \E args \in Vectors(3, {}), f \in Failures(1) :
          Return("if_then_else", args, if_then_else(Enter(f), args[1], args[2], args[3]))

Call_coalesce ==
    /\ CanCall
    /\ \E args \in VarVectors(0), f \in Failures(1) :
          Return("coalesce", args, coalesce(Enter(f), args))

Call_with_all_columns ==
    /\ CanCall
    /\ \E args \in {<< >>}, f \in Failures(1) :
          Return("with_all_columns", args, with_all_columns(Enter(f)))

Call_with_columns ==
    /\ CanCall
    /\ \E args \in VarVectors(1), f \in Failures(1) :
          Return("with_columns", args, with_columns(Enter(f), args[1], Rest(args, 1)))

Call_without_columns ==
    /\ CanCall
    /\ \E args \in VarVectors(1), f \in Failures(1) :
          Return("without_columns", args, without_columns(Enter(f), args[1], Rest(args, 1)))

Call_json ==
    /\ CanCall
    /\ \E args \in Vectors(1, {}), f \in Failures(1) :
          Return("json", args, json(Enter(f), args[1]))

Call_json_string ==
    /\ CanCall
    /\ \E args \in Vectors(1, {}), f \in Failures(1) :
          Return("json_string", args, json_string(Enter(f), args[1]))

Call_json_object ==
    /\ CanCall
    /\ \E args \in {<< >>} \cup {<<p>> \o a : p \in JsonOnNull, a \in VarVectors(0)}, f \in Failures(1) :
          Return("json_object", args, json_object(Enter(f), Param(args, 1, JsonOnNull_NULL), Rest(args, 1)))

Call_json_object_agg ==
    /\ CanCall
    /\ \E args \in {<<p>> \o a : p \in JsonOnNull, a \in Vectors(2, {})}, f \in Failures(1) :
          Return("json_object_agg", args, json_object_agg(Enter(f), args[1], args[2], args[3]))

Call_json_array ==
    /\ CanCall
    /\ \E args \in {<< >>} \cup {<<p>> \o a : p \in JsonOnNull, a \in VarVectors(0)}, f \in Failures(1) :
          Return("json_array", args, json_array(Enter(f), Param(args, 1, JsonOnNull_ABSENT), Rest(args, 1)))

Call_json_array_agg ==
    /\ CanCall
    /\ \E args \in {<<p>> \o a : p \in JsonOnNull, a \in Vectors(1, {})}, f \in Failures(1) :
          Return("json_array_agg", args, json_array_agg(Enter(f), args[1], args[2]))

Call_lag ==
    /\ CanCall
    /\ \E args \in Vectors(1, {}) \cup Vectors(2, {}) \cup Vectors(3, {3}), f \in Failures(1) :
          Return("lag", args, lag(Enter(f), args[1], Param(args, 2, DefaultOffset), Param(args, 3, None)))

Call_lead ==
    /\ CanCall
    /\ \E args \in Vectors(1, {}) \cup Vectors(2, {}) \cup Vectors(3, {3}), f \in Failures(1) :
          Return("lead", args, lead(Enter(f), args[1], Param(args, 2, DefaultOffset), Param(args, 3, None)))

Call_call ==
    /\ CanCall
    /\ \E args \in {<<f>> \o a : f \in Callables, a \in VarVectors(0)}, f \in Failures(1) :
          Return("call", args, call(Enter(f), args[1], Rest(args, 1)))

Call_call_sql ==
    /\ CanCall
    /\ \E args \in Vectors(1, {}), f \in Failures(1) :
          Return("call_sql", args, call_sql(Enter(f), args[1]))

PublicFunctions ==
    {"col", "lit", "range_", "and_", "or_",
     "not_", "current_database", "current_date", "current_time", "current_timestamp",
     "current_watermark", "local_time", "local_timestamp", "to_date", "to_timestamp",
     "to_timestamp_ltz", "temporal_overlaps", "date_format", "timestamp_diff", "convert_tz",
     "from_unixtime", "unix_timestamp", "array", "row", "map_",
     "map_from_arrays", "object_of", "row_interval", "pi", "e",
     "rand", "rand_integer", "atan2", "negative", "concat",
     "concat_ws", "uuid", "null_of", "log", "source_watermark",
     "if_then_else", "coalesce", "with_all_columns", "with_columns", "without_columns",
     "json", "json_string", "json_object", "json_object_agg", "json_array",
     "json_array_agg", "lag", "lead", "call", "call_sql"}

PublicCall ==
    \/ Call_col
    \/ Call_lit
    \/ Call_range_
    \/ Call_and_
    \/ Call_or_
    \/ Call_not_
    \/ Call_current_database
    \/ Call_current_date
    \/ Call_current_time
    \/ Call_current_timestamp
    \/ Call_current_watermark
    \/ Call_local_time
    \/ Call_local_timestamp
    \/ Call_to_date
    \/ Call_to_timestamp
    \/ Call_to_timestamp_ltz
    \/ Call_temporal_overlaps
    \/ Call_date_format
    \/ Call_timestamp_diff
    \/ Call_convert_tz
    \/ Call_from_unixtime
    \/ Call_unix_timestamp
    \/ Call_array
    \/ Call_row
    \/ Call_map_
    \/ Call_map_from_arrays
    \/ Call_object_of
    \/ Call_row_interval
    \/ Call_pi
    \/ Call_e
    \/ Call_rand
    \/ Call_rand_integer
    \/ Call_atan2
    \/ Call_negative
    \/ Call_concat
    \/ Call_concat_ws
    \/ Call_uuid
    \/ Call_null_of
    \/ Call_log
    \/ Call_source_watermark
    \/ Call_if_then_else
    \/ Call_coalesce
    \/ Call_with_all_columns
    \/ Call_with_columns
    \/ Call_without_columns
    \/ Call_json
    \/ Call_json_string
    \/ Call_json_object
    \/ Call_json_object_agg
    \/ Call_json_array
    \/ Call_json_array_agg
    \/ Call_lag
    \/ Call_lead
    \/ Call_call
    \/ Call_call_sql

\* the snake-case spelling of each public name, letter by letter
Spelling ==
    "col" :> <<"c", "o", "l">> @@
    "lit" :> <<"l", "i", "t">> @@
    "range_" :> <<"r", "a", "n", "g", "e", "_">> @@
    "and_" :> <<"a", "n", "d", "_">> @@
    "or_" :> <<"o", "r", "_">> @@
    "not_" :> <<"n", "o", "t", "_">> @@
    "current_database" :> <<"c", "u", "r", "r", "e", "n", "t", "_", "d", "a", "t", "a", "b", "a", "s", "e">> @@
    "current_date" :> <<"c", "u", "r", "r", "e", "n", "t", "_", "d", "a", "t", "e">> @@
    "current_time" :> <<"c", "u", "r", "r", "e", "n", "t", "_", "t", "i", "m", "e">> @@
    "current_timestamp" :> <<"c", "u", "r", "r", "e", "n", "t", "_", "t", "i", "m", "e", "s", "t", "a", "m", "p">> @@
    "current_watermark" :> <<"c", "u", "r", "r", "e", "n", "t", "_", "w", "a", "t", "e", "r", "m", "a", "r", "k">> @@
    "local_time" :> <<"l", "o", "c", "a", "l", "_", "t", "i", "m", "e">> @@
    "local_timestamp" :> <<"l", "o", "c", "a", "l", "_", "t", "i", "m", "e", "s", "t", "a", "m", "p">> @@
    "to_date" :> <<"t", "o", "_", "d", "a", "t", "e">> @@
    "to_timestamp" :> <<"t", "o", "_", "t", "i", "m", "e", "s", "t", "a", "m", "p">> @@
    "to_timestamp_ltz" :> <<"t", "o", "_", "t", "i", "m", "e", "s", "t", "a", "m", "p", "_", "l", "t", "z">> @@
    "temporal_overlaps" :> <<"t", "e", "m", "p", "o", "r", "a", "l", "_", "o", "v", "e", "r", "l", "a", "p", "s">> @@
    "date_format" :> <<"d", "a", "t", "e", "_", "f", "o", "r", "m", "a", "t">> @@
    "timestamp_diff" :> <<"t", "i", "m", "e", "s", "t", "a", "m", "p", "_", "d", "i", "f", "f">> @@
    "convert_tz" :> <<"c", "o", "n", "v", "e", "r", "t", "_", "t", "z">> @@
    "from_unixtime" :> <<"f", "r", "o", "m", "_", "u", "n", "i", "x", "t", "i", "m", "e">> @@
    "unix_timestamp" :> <<"u", "n", "i", "x", "_", "t", "i", "m", "e", "s", "t", "a", "m", "p">> @@
    "array" :> <<"a", "r", "r", "a", "y">> @@
    "row" :> <<"r", "o", "w">> @@
    "map_" :> <<"m", "a", "p", "_">> @@
    "map_from_arrays" :> <<"m", "a", "p", "_", "f", "r", "o", "m", "_", "a", "r", "r", "a", "y", "s">> @@
    "object_of" :> <<"o", "b", "j", "e", "c", "t", "_", "o", "f">> @@
    "row_interval" :> <<"r", "o", "w", "_", "i", "n", "t", "e", "r", "v", "a", "l">> @@
    "pi" :> <<"p", "i">> @@
    "e" :> <<"e">> @@
    "rand" :> <<"r", "a", "n", "d">> @@
    "rand_integer" :> <<"r", "a", "n", "d", "_", "i", "n", "t", "e", "g", "e", "r">> @@
    "atan2" :> <<"a", "t", "a", "n", "2">> @@
    "negative" :> <<"n", "e", "g", "a", "t", "i", "v", "e">> @@
    "concat" :> <<"c", "o", "n", "c", "a", "t">> @@
    "concat_ws" :> <<"c", "o", "n", "c", "a", "t", "_", "w", "s">> @@
    "uuid" :> <<"u", "u", "i", "d">> @@
    "null_of" :> <<"n", "u", "l", "l", "_", "o", "f">> @@
    "log" :> <<"l", "o", "g">> @@
    "source_watermark" :> <<"s", "o", "u", "r", "c", "e", "_", "w", "a", "t", "e", "r", "m", "a", "r", "k">> @@
    "if_then_else" :> <<"i", "f", "_", "t", "h", "e", "n", "_", "e", "l", "s", "e">> @@
    "coalesce" :> <<"c", "o", "a", "l", "e", "s", "c", "e">> @@
    "with_all_columns" :> <<"w", "i", "t", "h", "_", "a", "l", "l", "_", "c", "o", "l", "u", "m", "n", "s">> @@
    "with_columns" :> <<"w", "i", "t", "h", "_", "c", "o", "l", "u", "m", "n", "s">> @@
    "without_columns" :> <<"w", "i", "t", "h", "o", "u", "t", "_", "c", "o", "l", "u", "m", "n", "s">> @@
    "json" :> <<"j", "s", "o", "n">> @@
    "json_string" :> <<"j", "s", "o", "n", "_", "s", "t", "r", "i", "n", "g">> @@
    "json_object" :> <<"j", "s", "o", "n", "_", "o", "b", "j", "e", "c", "t">> @@
    "json_object_agg" :> <<"j", "s", "o", "n", "_", "o", "b", "j", "e", "c", "t", "_", "a", "g", "g">> @@
    "json_array" :> <<"j", "s", "o", "n", "_", "a", "r", "r", "a", "y">> @@
    "json_array_agg" :> <<"j", "s", "o", "n", "_", "a", "r", "r", "a", "y", "_", "a", "g", "g">> @@
    "lag" :> <<"l", "a", "g">> @@
    "lead" :> <<"l", "e", "a", "d">> @@
    "call" :> <<"c", "a", "l", "l">> @@
    "call_sql" :> <<"c", "a", "l", "l", "_", "s", "q", "l">>

\* the spelling of the other names bound in the module
OtherSpelling ==
    "Union" :> <<"U", "n", "i", "o", "n">> @@
    "add_version_doc" :> <<"a", "d", "d", "_", "v", "e", "r", "s", "i", "o", "n", "_", "d", "o", "c">> @@
    "get_gateway" :> <<"g", "e", "t", "_", "g", "a", "t", "e", "w", "a", "y">> @@
    "Expression" :> <<"E", "x", "p", "r", "e", "s", "s", "i", "o", "n">> @@
    "_get_java_expression" :> <<"_", "g", "e", "t", "_", "j", "a", "v", "a", "_", "e", "x", "p", "r", "e", "s", "s", "i", "o", "n">> @@
    "TimePointUnit" :> <<"T", "i", "m", "e", "P", "o", "i", "n", "t", "U", "n", "i", "t">> @@
    "JsonOnNull" :> <<"J", "s", "o", "n", "O", "n", "N", "u", "l", "l">> @@
    "_to_java_data_type" :> <<"_", "t", "o", "_", "j", "a", "v", "a", "_", "d", "a", "t", "a", "_", "t", "y", "p", "e">> @@
    "DataType" :> <<"D", "a", "t", "a", "T", "y", "p", "e">> @@
    "UserDefinedFunctionWrapper" :> <<"U", "s", "e", "r", "D", "e", "f", "i", "n", "e", "d", "F", "u", "n", "c", "t", "i", "o", "n", "W", "r", "a", "p", "p", "e", "r">> @@
    "PublicEvolving" :> <<"P", "u", "b", "l", "i", "c", "E", "v", "o", "l", "v", "i", "n", "g">> @@
    "to_jarray" :> <<"t", "o", "_", "j", "a", "r", "r", "a", "y">> @@
    "load_java_class" :> <<"l", "o", "a", "d", "_", "j", "a", "v", "a", "_", "c", "l", "a", "s", "s">> @@
    "_leaf_op" :> <<"_", "l", "e", "a", "f", "_", "o", "p">> @@
    "_unary_op" :> <<"_", "u", "n", "a", "r", "y", "_", "o", "p">> @@
    "_binary_op" :> <<"_", "b", "i", "n", "a", "r", "y", "_", "o", "p">> @@
    "_ternary_op" :> <<"_", "t", "e", "r", "n", "a", "r", "y", "_", "o", "p">> @@
    "_quaternion_op" :> <<"_", "q", "u", "a", "t", "e", "r", "n", "i", "o", "n", "_", "o", "p">> @@
    "_varargs_op" :> <<"_", "v", "a", "r", "a", "r", "g", "s", "_", "o", "p">> @@
    "_add_version_doc" :> <<"_", "a", "d", "d", "_", "v", "e", "r", "s", "i", "o", "n", "_", "d", "o", "c">> @@
    "UNBOUNDED_ROW" :> <<"U", "N", "B", "O", "U", "N", "D", "E", "D", "_", "R", "O", "W">> @@
    "UNBOUNDED_RANGE" :> <<"U", "N", "B", "O", "U", "N", "D", "E", "D", "_", "R", "A", "N", "G", "E">> @@
    "CURRENT_ROW" :> <<"C", "U", "R", "R", "E", "N", "T", "_", "R", "O", "W">> @@
    "CURRENT_RANGE" :> <<"C", "U", "R", "R", "E", "N", "T", "_", "R", "A", "N", "G", "E">> @@
    "__all__" :> <<"_", "_", "a", "l", "l", "_", "_">>

NameLetters == Spelling @@ OtherSpelling

\* ---- the module body, run once at import ----

\* expressions.py:28-37
__all__ ==
    {"if_then_else", "lit", "col", "range_", "and_", "or_", "not_", "UNBOUNDED_ROW",
     "UNBOUNDED_RANGE", "CURRENT_ROW", "CURRENT_RANGE", "current_database",
     "current_date", "current_time", "current_timestamp",
     "current_watermark", "local_time", "local_timestamp",
     "temporal_overlaps", "date_format", "timestamp_diff", "array", "row", "map_",
     "row_interval", "pi", "e", "rand", "rand_integer", "atan2", "negative", "concat",
     "concat_ws", "uuid", "null_of", "log", "with_columns", "without_columns", "json",
     "json_string", "json_object", "json_object_agg", "json_array", "json_array_agg",
     "call", "call_sql", "source_watermark", "to_timestamp_ltz", "from_unixtime", "to_date",
     "to_timestamp", "convert_tz", "unix_timestamp"}

\* expressions.py:18-26: the names the import statements bind in the module, and
\* what each is bound to
ImportedMembers ==
    {[name |-> "Union", kind |-> "typing form"],
     [name |-> "add_version_doc", kind |-> "function"],
     [name |-> "get_gateway", kind |-> "function"],
     [name |-> "Expression", kind |-> "class"],
     [name |-> "_get_java_expression", kind |-> "function"],
     [name |-> "TimePointUnit", kind |-> "class"],
     [name |-> "JsonOnNull", kind |-> "class"],
     [name |-> "_to_java_data_type", kind |-> "function"],
     [name |-> "DataType", kind |-> "class"],
     [name |-> "UserDefinedFunctionWrapper", kind |-> "class"],
     [name |-> "PublicEvolving", kind |-> "class"],
     [name |-> "to_jarray", kind |-> "function"],
     [name |-> "load_java_class", kind |-> "function"]}

\* the functions the module defines whose names begin with an underscore
PrivateFunctions ==
    {"_leaf_op", "_unary_op", "_binary_op", "_ternary_op", "_quaternion_op",
     "_varargs_op", "_add_version_doc"}

ConstantNames == <<"UNBOUNDED_ROW", "UNBOUNDED_RANGE", "CURRENT_ROW", "CURRENT_RANGE">>

\* the members of the module that the module itself defines
DefinedMembers ==
    {[name |-> n, kind |-> "function"] : n \in PublicFunctions \cup PrivateFunctions}
    \cup {[name |-> ConstantNames[i], kind |-> "Expression"] : i \in DOMAIN ConstantNames}
    \cup {[name |-> "__all__", kind |-> "list"]}

\* inspect.getmembers(expressions): every name bound in the module, imported or
\* defined
getmembers == ImportedMembers \cup DefinedMembers

\* inspect.isfunction
isfunction(o) == o.kind = "function"

\* str.startswith('_')
startswith_underscore(name) == Head(NameLetters[name]) = "_"

\* the markers a member carries: doc[version] is the bag of the names whose
\* documentation has had the marker of that version appended, once per append
Markers(docs, name, version) ==
    IF version \in DOMAIN docs THEN CopiesIn(name, docs[version]) ELSE 0

NoDocs == << >>

\* the names that carry the marker of version, each as often as it was appended
Marked(docs, version) == IF version \in DOMAIN docs THEN docs[version] ELSE EmptyBag

\* pyflink.add_version_doc(f, version): appends the marker to the documentation of f
add_version_doc(docs, name, version) ==
    (version :> (Marked(docs, version) (+) SetToBag({name}))) @@ docs

\* add_version_doc applied once to every one of the members (no two members of
\* a module share a name)
ForEachMember(docs, members, version) ==
    (version :> (Marked(docs, version) (+) SetToBag({o.name : o \in members}))) @@ docs

\* a faulty _add_version_doc: only the exported names are annotated
_add_version_doc_exported_only(docs) ==
    ForEachMember(docs,
                  {o \in getmembers : isfunction(o) /\ o.name \in __all__},
                  "1.12.0")

\* expressions.py:80-85
_add_version_doc(docs) ==
    ForEachMember(docs,
                  {o \in getmembers : isfunction(o) /\ ~startswith_underscore(o.name)},
                  "1.12.0")

\* expressions.py:190-219: the module constants, wrappers built at import
ModuleConstants ==
    <<[str |-> "UNBOUNDED_ROW"], [str |-> "UNBOUNDED_RANGE"],
      [str |-> "CURRENT_ROW"], [str |-> "CURRENT_RANGE"]>>

\* the state in which the module body starts
LoadContext ==
    [next |-> 1, heap |-> << >>, invs |-> << >>, err |-> "none",
     ret |-> None, jret |-> None, fail |-> NoFailure]

\* a faulty module body: UNBOUNDED_ROW is obtained from the remote factory
ModuleLoad_remote_constant ==
    LET c1 == _leaf_op(LoadContext, "UNBOUNDED_ROW")
        c2 == Expression(c1, ModuleConstants[2])
        c3 == Expression(c2, ModuleConstants[3])
    IN  Expression(c3, ModuleConstants[4])

\* expressions.py:183-219: the four Expression(...) statements of the module body
ModuleLoad ==
    LET c1 == Expression(LoadContext, ModuleConstants[1])
        c2 == Expression(c1, ModuleConstants[2])
        c3 == Expression(c2, ModuleConstants[3])
    IN  Expression(c3, ModuleConstants[4])

\* the module imported: its constants built, then _add_version_doc() run (1111)
Init ==
    /\ nextHandle = ModuleLoad.next
    /\ heap = ModuleLoad.heap
    /\ invoked = Len(ModuleLoad.invs)
    /\ issued = 0
    /\ doc = _add_version_doc(NoDocs)
    /\ last = NoCall
    /\ again = FALSE

Next == PublicCall

Spec == Init /\ [][Next]_vars

\* ---- properties ----

Called == last # NoCall
Succeeded == Called /\ last.err = "none"
Final(r) == r.invs[Len(r.invs)]

\* what reaches the remote side for an argument of the caller: the handle a
\* wrapper holds, the value itself otherwise
HandleOf(v) == IF IsWrapper(v) THEN heap[v.w] ELSE v
HandlesOf(s) == [i \in DOMAIN s |-> HandleOf(s[i])]

Min(a, b) == IF a < b THEN a ELSE b

\* the argument lists the documentation of to_timestamp_ltz gives
ValidArguments ==
    last.fn = "to_timestamp_ltz" =>
        (Len(last.args) \in 1..3 /\ \A i \in DOMAIN last.args : last.args[i] # None)

\* C1 (as claimed): every public call that returns has made exactly one
\* invocation of the remote factory.
C1_ExactlyOneInvocation ==
    (Succeeded /\ ValidArguments) => Len(last.invs) = 1

\* C1 (amended): every public call that returns has made exactly one invocation
\* of the remote factory, except to_timestamp_ltz, which with n arguments
\* (n = 1, 2, 3) has made n + 1: one "lit" per argument, then "toTimestampLtz".
C1_InvocationCount ==
    Succeeded =>
        IF last.fn = "to_timestamp_ltz"
        THEN Len(last.args) \in 1..3 => Len(last.invs) = Len(last.args) + 1
        ELSE Len(last.invs) = 1

C1_Witness ==
    /\ Succeeded
    /\ last.fn = "to_timestamp_ltz"
    /\ Len(last.args) = 3
    /\ Len(last.invs) = 4

ArityPolymorphic ==
    {"to_timestamp_ltz", "lag", "lead", "from_unixtime", "unix_timestamp", "to_date",
     "to_timestamp", "rand", "rand_integer", "log", "lit"}

\* the number of operands of the remote operation a call ended with
Arity(r) == Len(Final(r).operands)

SameFunctionSameCount ==
    /\ Called /\ last.err = "none" /\ last'.err = "none"
    /\ last.invs # << >> /\ last'.invs # << >>
    /\ last.fn \in ArityPolymorphic
    /\ last'.fn = last.fn
    /\ Len(last'.args) = Len(last.args)

NoneAt(args) == {i \in DOMAIN args : args[i] = None}

C3_ToTimestampLtzOperands ==
    (Succeeded /\ last.fn = "to_timestamp_ltz" /\ Len(last.args) \in 1..3) =>
        LET n == Len(last.args) IN
        /\ Len(last.invs) = n + 1
        /\ \A i \in 1..n :
              /\ last.invs[i].op = "lit"
              /\ last.invs[i].operands = <<HandleOf(last.args[i])>>
              /\ IsHandle(last.invs[i].ret)
        /\ Final(last).entry = "Expressions"
        /\ Final(last).op = "toTimestampLtz"
        /\ Final(last).operands = [i \in 1..n |-> last.invs[i].ret]

C3_Witness ==
    /\ Succeeded
    /\ last.fn = "to_timestamp_ltz"
    /\ Len(last.args) = 3
    /\ IsWrapper(last.args[2])
    /\ IsHandle(HandleOf(last.args[2]))
    /\ Final(last).op = "toTimestampLtz"

JsonBuilders == {"json_object", "json_array", "json_object_agg", "json_array_agg"}

\* the on-null policy of a JSON call: the first argument, or the default of the
\* function when the caller passes none
PolicyOf(r) ==
    IF r.args # << >> THEN r.args[1]
    ELSE IF r.fn = "json_object" THEN JsonOnNull_NULL ELSE JsonOnNull_ABSENT

\* C4: json_object, json_array, json_object_agg and json_array_agg make one
\* remote call whose first operand is the remote representation of the on-null
\* policy, followed by the k >= 0 value operands in the caller's order; with
\* k = 0 the remote call receives the policy alone.
C4_JsonPolicyFirst ==
    (Called /\ last.fn \in JsonBuilders /\ last.invs # << >>) =>
        LET ops == Final(last).operands
            values == Rest(last.args, 1)
        IN  /\ Len(last.invs) = 1
            /\ Len(ops) = Len(values) + 1
            /\ DOMAIN ops[1] = {"j_on_null"}
            /\ ops[1].j_on_null = PolicyOf(last).on_null
            /\ Rest(ops, 1) = HandlesOf(values)

C4_Witness ==
    /\ Succeeded
    /\ last.fn = "json_object"
    /\ Len(last.args) = 3
    /\ IsWrapper(last.args[3])
    /\ Final(last).operands[1] = [j_on_null |-> "ABSENT"]

\* C5: call(f, *args) with a string f invokes Expressions.call with the name and
\* the array of arguments, and never apiCall; with a function object it invokes
\* apiCall (by reflection) with the function's Java definition and the array of
\* arguments, and never Expressions.call.
C5_CallRouting ==
    (Called /\ last.fn = "call") =>
        LET f == last.args[1]
            arguments == [arr |-> HandlesOf(Rest(last.args, 1))]
        IN  /\ Len(last.invs) = 1
            /\ IF IsStr(f)
               THEN /\ Final(last).entry = "Expressions"
                    /\ Final(last).op = "call"
                    /\ Final(last).operands = <<f, arguments>>
               ELSE /\ Final(last).entry = "reflection"
                    /\ Final(last).op = "apiCall"
                    /\ Final(last).operands = <<[j_function |-> f.udf], arguments>>

C5_Witness ==
    /\ Succeeded
    /\ last.fn = "call"
    /\ ~IsStr(last.args[1])
    /\ Len(last.args) = 3
    /\ Final(last).op = "apiCall"

\* C6: and_ (or_) with n >= 2 predicates makes one remote call, of "and" ("or"),
\* with exactly three operands: the first predicate, the second, and the array of
\* the remaining n - 2 in the caller's order (empty when n = 2). Every predicate
\* is passed on, whatever it is: nothing is evaluated locally.
C6_AndOrOperands ==
    (Called /\ last.fn \in {"and_", "or_"}) =>
        /\ Len(last.args) >= 2
        /\ Len(last.invs) = 1
        /\ Final(last).entry = "Expressions"
        /\ Final(last).op = (IF last.fn = "and_" THEN "and" ELSE "or")
        /\ Final(last).operands =
              <<HandleOf(last.args[1]), HandleOf(last.args[2]),
                [arr |-> [i \in 1..(Len(last.args) - 2) |-> HandleOf(last.args[i + 2])]]>>

C6_Witness ==
    /\ Succeeded
    /\ last.fn = "and_"
    /\ Len(last.args) = 4
    /\ IsWrapper(last.args[4])
    /\ Len(Final(last).operands) = 3
    /\ Len(Final(last).operands[3].arr) = 2

\* what a call marshalled to the remote factory: the entry point, the operation
\* name and the operands of each invocation, in order
Marshalled(r) ==
    [i \in DOMAIN r.invs |->
        [entry |-> r.invs[i].entry, op |-> r.invs[i].op, operands |-> r.invs[i].operands]]

\* the same, with each operand that is a handle returned to this very call by an
\* earlier invocation of it named by the number of that invocation
OwnResult(r, i, v) ==
    IF \E j \in 1..(i - 1) : r.invs[j].ret = v
    THEN [result_of |-> CHOOSE j \in 1..(i - 1) : r.invs[j].ret = v]
    ELSE v

MarshalledUpToOwnResults(r) ==
    [i \in DOMAIN r.invs |->
        [entry |-> r.invs[i].entry, op |-> r.invs[i].op,
         operands |-> [k \in DOMAIN r.invs[i].operands |->
                          OwnResult(r, i, r.invs[i].operands[k])]]]

\* a call that returned is followed by a call of the same function with the same
\* arguments that returns
SameExpressionTwice ==
    /\ Called /\ last.err = "none" /\ last'.err = "none"
    /\ last'.fn = last.fn
    /\ last'.args = last.args

C8_FailurePropagates ==
    Called =>
        /\ \A i \in DOMAIN last.invs :
              last.invs[i].outcome # "ok" =>
                  /\ i = Len(last.invs)
                  /\ last.err = last.invs[i].outcome
                  /\ last.ret = None
        /\ last.err \in FailureKinds =>
              (last.invs # << >> /\ Final(last).outcome = last.err /\ last.ret = None)
        /\ Len(heap) = Len(ModuleConstants) + (nextHandle - 1)

C8_Witness ==
    /\ Called
    /\ last.fn = "to_timestamp_ltz"
    /\ Len(last.args) = 3
    /\ Len(last.invs) = 2
    /\ last.invs[1].outcome = "ok"
    /\ last.invs[2].outcome = "unresolvable"
    /\ last.err = "unresolvable"
    /\ last.ret = None

\* ---- the camel-case equivalent of a snake-case name ----
LowerCase == <<"a", "b", "c", "d", "e", "f", "g", "h", "i", "j", "k", "l", "m",
               "n", "o", "p", "q", "r", "s", "t", "u", "v", "w", "x", "y", "z">>
UpperCase == <<"A", "B", "C", "D", "E", "F", "G", "H", "I", "J", "K", "L", "M",
               "N", "O", "P", "Q", "R", "S", "T", "U", "V", "W", "X", "Y", "Z">>

Capital(ch) ==
    IF \E i \in DOMAIN LowerCase : LowerCase[i] = ch
    THEN UpperCase[CHOOSE i \in DOMAIN LowerCase : LowerCase[i] = ch]
    ELSE ch

\* the letters joined, each underscore dropped and the letter after it capitalised
RECURSIVE CamelCase(_, _)
CamelCase(letters, capitalise) ==
    IF letters = << >> THEN ""
    ELSE IF Head(letters) = "_" THEN CamelCase(Tail(letters), TRUE)
    ELSE (IF capitalise THEN Capital(Head(letters)) ELSE Head(letters))
             \o CamelCase(Tail(letters), FALSE)

RECURSIVE Joined(_)
Joined(letters) ==
    IF letters = << >> THEN "" ELSE Head(letters) \o Joined(Tail(letters))

CamelName(fn) == CamelCase(Spelling[fn], FALSE)

\* C9 (as claimed): every remote operation a public function invokes is named by
\* the camel-case equivalent of the function's name.
C9_CamelCaseOfOwnName ==
    (Called /\ ValidArguments) => \A i \in DOMAIN last.invs : last.invs[i].op = CamelName(last.fn)

\* the operation the i-th remote invocation of a call names
ExpectedOperation(r, i) ==
    IF r.fn = "call" /\ ~IsStr(r.args[1]) THEN "apiCall"
    ELSE IF r.fn = "to_timestamp_ltz" /\ i <= Min(Len(r.args), 3) THEN "lit"
    ELSE CamelName(r.fn)

\* C9 (amended): every remote operation a public function invokes is named by
\* the camel-case equivalent of the function's name (the trailing underscore of
\* range_, and_, or_, not_ and map_ dropped), except that call with a function
\* object invokes apiCall, and that to_timestamp_ltz invokes lit once for each
\* of its arguments before it invokes toTimestampLtz.
C9_OperationNames ==
    Called =>
        /\ Joined(Spelling[last.fn]) = last.fn
        /\ \A i \in DOMAIN last.invs : last.invs[i].op = ExpectedOperation(last, i)

C9_Witness ==
    /\ Succeeded
    /\ last.fn = "json_object_agg"
    /\ Final(last).op = "jsonObjectAgg"
    /\ CamelName(last.fn) = "jsonObjectAgg"

\* C10: a public call that returns gives a wrapper created by this call, which
\* holds the handle the remote factory returned for the call's last invocation:
\* a handle (not None) that no other wrapper holds and that is the handle of no
\* operand.
C10_WrapsReturnedHandle ==
    Succeeded =>
        /\ last.invs # << >>
        /\ IsWrapper(last.ret)
        /\ last.ret.w = Len(heap)
        /\ IsHandle(Final(last).ret)
        /\ heap[last.ret.w] = Final(last).ret
        /\ \A k \in DOMAIN heap : k # last.ret.w => heap[k] # heap[last.ret.w]
        /\ \A i \in DOMAIN last.args :
              /\ last.args[i] # last.ret
              /\ HandleOf(last.args[i]) # heap[last.ret.w]

C10_Witness ==
    /\ Succeeded
    /\ last.fn = "not_"
    /\ last.args = <<[w |-> 5]>>
    /\ heap[5] = [h |-> 1]
    /\ last.ret = [w |-> 6]
    /\ heap[6] = [h |-> 2]

\* ---- the two forms of lit ----

\* C11: a call of lit makes one invocation, of the remote operation "lit": with
\* no type descriptor its single operand is v; with a type descriptor t it has
\* two operands, v first and the Java translation of t second.
C11_LitShapes ==
    (Called /\ last.fn = "lit" /\ last.invs # << >>) =>
        /\ Len(last.invs) = 1
        /\ last.invs[1].entry = "Expressions"
        /\ last.invs[1].op = "lit"
        /\ last.invs[1].operands =
              IF Param(last.args, 2, None) = None
              THEN <<HandleOf(last.args[1])>>
              ELSE <<HandleOf(last.args[1]), _to_java_data_type(last.args[2])>>

C11_Witness ==
    /\ Succeeded
    /\ last.fn = "lit"
    /\ Len(last.args) = 2
    /\ last.args[1] = Raw(1)
    /\ last.args[2] \in DataTypes
    /\ Final(last).operands = <<Raw(1), [j_data_type |-> "INT"]>>

\* ---- the annotation pass of the import ----

\* the functions the module defines whose names do not begin with an underscore
LibraryFunctions ==
    {o.name : o \in {m \in DefinedMembers : isfunction(m) /\ ~startswith_underscore(m.name)}}

\* C12: once the module is imported every public function it defines, exported
\* in __all__ or not, carries the marker of version "1.12.0", and carries it
\* once: the pass has run exactly once, and no other marker has been attached.
C12_PublicFunctionsMarkedOnce ==
    /\ LibraryFunctions = PublicFunctions
    /\ \A name \in LibraryFunctions : Markers(doc, name, "1.12.0") = 1
    /\ DOMAIN doc = {"1.12.0"}

C12_Witness ==
    /\ Succeeded
    /\ last.fn = "lag"
    /\ "lag" \notin __all__
    /\ Markers(doc, "lag", "1.12.0") = 1
    /\ Markers(doc, "lit", "1.12.0") = 1

\* ---- wrappers are immutable ----

\* C13: no step changes the Java object a wrapper built earlier holds, be the
\* wrapper a result given back earlier or the operand of the present call.
C13_WrappersNeverMutated ==
    [][\A k \in DOMAIN heap : k \in DOMAIN heap' /\ heap'[k] = heap[k]]_vars

C13_Witness ==
    /\ Succeeded
    /\ last.fn = "not_"
    /\ last.args = <<[w |-> 5]>>
    /\ heap[5] = [h |-> 1]
    /\ last.ret = [w |-> 6]
    /\ heap[6] = [h |-> 2]
    /\ Final(last).operands = <<[h |-> 1]>>

\* ---- head-plus-rest variadic functions ----

HeadPlusRest == {"array", "row", "concat", "with_columns", "without_columns"}
TwoPlusRest == {"map_", "concat_ws"}

\* the ordered collection made of the arguments after the first n
Collected(args, n) == to_jarray(HandlesOf(Rest(args, n)))

\* C14: array, row, concat, with_columns and without_columns called with a head
\* and k further operands invoke the remote operation with two operands, the
\* head and the collection of the k further operands in the caller's order;
\* map_ and concat_ws invoke it with their two leading arguments and such a
\* collection.
C14_HeadAndCollection ==
    (Called /\ last.invs # << >>) =>
        /\ last.fn \in HeadPlusRest =>
              /\ Len(last.invs) = 1
              /\ last.invs[1].operands =
                    <<HandleOf(last.args[1]), Collected(last.args, 1)>>
              /\ Len(last.invs[1].operands[2].arr) = Len(last.args) - 1
        /\ last.fn \in TwoPlusRest =>
              /\ Len(last.invs) = 1
              /\ last.invs[1].operands =
                    <<HandleOf(last.args[1]), HandleOf(last.args[2]),
                      Collected(last.args, 2)>>
              /\ Len(last.invs[1].operands[3].arr) = Len(last.args) - 2

C14_Witness ==
    /\ Succeeded
    /\ last.fn = "with_columns"
    /\ Len(last.args) = 3
    /\ last.args[2] = Raw(2)
    /\ IsWrapper(last.args[3])
    /\ Final(last).operands[2] = [arr |-> <<Raw(2), heap[last.args[3].w]>>]

\* ---- no operand is dropped ----

\* what the remote side is given for an argument: the Java translation of a type
\* descriptor, of an on-null policy, of a time unit or of a Python function, the
\* Java expression of a wrapper, and the value itself otherwise
Normalized(v) ==
    IF "data_type" \in DOMAIN v THEN _to_java_data_type(v)
    ELSE IF "on_null" \in DOMAIN v THEN _to_j_json_on_null(v)
    ELSE IF "unit" \in DOMAIN v THEN _to_j_time_point_unit(v)
    ELSE IF "udf" \in DOMAIN v THEN _java_user_defined_function(v)
    ELSE HandleOf(v)

\* the argument is an operand of one of the remote invocations of the call r,
\* itself or inside a collection
Appears(v, r) ==
    \E i \in DOMAIN r.invs : \E j \in DOMAIN r.invs[i].operands :
        LET operand == r.invs[i].operands[j]
        IN  \/ operand = Normalized(v)
            \/ /\ "arr" \in DOMAIN operand
               /\ \E k \in DOMAIN operand.arr : operand.arr[k] = Normalized(v)

\* C15 (as claimed): of a call that returns, every argument the caller supplied
\* (None stands for an argument left out) is an operand of a remote invocation the
\* call made, as it is, translated, or inside a collection.
C15_NoOperandDropped ==
    Succeeded =>
        \A i \in DOMAIN last.args :
            last.args[i] # None => Appears(last.args[i], last)

\* the calls that return without having passed on an argument they were given
DropsAnOperand ==
    /\ Succeeded
    /\ \E i \in DOMAIN last.args : last.args[i] # None /\ ~Appears(last.args[i], last)

\* where the code drops an operand: the arguments of to_timestamp_ltz after the
\* third, and the format of unix_timestamp when date_str is None
C15_DroppedOnlyThere ==
    DropsAnOperand =>
        \/ /\ last.fn = "to_timestamp_ltz"
           /\ Len(last.args) > 3
           /\ \A i \in 1..3 : last.args[i] # None => Appears(last.args[i], last)
        \/ /\ last.fn = "unix_timestamp"
           /\ last.args[1] = None
           /\ Final(last).operands = << >>

\* ---- what the annotation pass leaves alone ----

\* C16 (as claimed): the pass marks no name the module imports from elsewhere.
C16_ImportsNotAnnotated ==
    \A o \in ImportedMembers : \A version \in DOMAIN doc :
        Markers(doc, o.name, version) = 0

\* the imported names the pass marks: the functions whose names do not begin
\* with an underscore
C16_AnnotatedImports ==
    {o.name : o \in {m \in ImportedMembers : Markers(doc, m.name, "1.12.0") > 0}} =
        {"add_version_doc", "get_gateway", "to_jarray", "load_java_class"}

\* ---- the export list ----

\* C17 (as claimed): every public function of the imported module (the pass has
\* marked each of them) is named in __all__, and every name in __all__ is
\* defined in the module.
C17_ExportsEveryPublicFunction ==
    /\ \A name \in LibraryFunctions :
          Markers(doc, name, "1.12.0") > 0 => name \in __all__
    /\ __all__ \subseteq {o.name : o \in DefinedMembers}

\* the public functions the export list leaves out
C17_NotExported ==
    {name \in LibraryFunctions : Markers(doc, name, "1.12.0") > 0 /\ name \notin __all__} =
        {"coalesce", "with_all_columns", "map_from_arrays", "object_of", "lag", "lead"}

\* ---- the optional second argument that goes first ----

\* C18: rand_integer(bound, seed) invokes randInteger with (seed, bound) and
\* log(v, base) invokes log with (base, v); without the second argument they
\* invoke the same operation with bound, with v, alone.
C18_OptionalOperandFirst ==
    (Called /\ last.fn \in {"rand_integer", "log"} /\ last.invs # << >>) =>
        /\ Len(last.invs) = 1
        /\ last.invs[1].op = (IF last.fn = "log" THEN "log" ELSE "randInteger")
        /\ last.invs[1].operands =
              IF Param(last.args, 2, None) = None
              THEN <<HandleOf(last.args[1])>>
              ELSE <<HandleOf(last.args[2]), HandleOf(last.args[1])>>

C18_Witness ==
    /\ Succeeded
    /\ last.fn = "log"
    /\ last.args = <<Raw(1), Raw(2)>>
    /\ Final(last).op = "log"
    /\ Final(last).operands = <<Raw(2), Raw(1)>>

\* ---- the import makes no remote invocation ----

\* C19: the four window-offset constants are wrappers around their own names
\* as strings, built without the remote factory, and the remote factory has
\* received as many invocations as the public calls have made.
C19_LoadInvokesNothing ==
    /\ \A k \in DOMAIN ConstantNames : heap[k] = [str |-> ConstantNames[k]]
    /\ invoked = issued
    /\ ~Called => (invoked = 0 /\ nextHandle = 1 /\ Len(heap) = Len(ConstantNames))

C19_Witness ==
    /\ Succeeded
    /\ last.fn = "negative"
    /\ last.args = <<UNBOUNDED_ROW>>
    /\ Final(last).operands = <<[str |-> "UNBOUNDED_ROW"]>>
    /\ invoked = 2
    /\ issued = 2

\* ---- to_timestamp_ltz without arguments ----

\* C20: to_timestamp_ltz called with no argument raises IndexError before any
\* remote invocation: the call has made none, the remote factory has received
\* only those of the calls before, which all returned, and nothing is returned
\* or built.
C20_NoArgumentsFailsLocally ==
    (Called /\ last.fn = "to_timestamp_ltz" /\ last.args = << >>) =>
        /\ last.err = "IndexError"
        /\ last.invs = << >>
        /\ last.ret = None
        /\ invoked = nextHandle - 1
        /\ Len(heap) = Len(ModuleConstants) + (nextHandle - 1)

C20_Witness ==
    /\ Called
    /\ last.fn = "to_timestamp_ltz"
    /\ last.args = << >>
    /\ last.err = "IndexError"
    /\ nextHandle = 2
    /\ invoked = 1
====
